---------------------------- MODULE Spec2Model ----------------------------
(* A model of the dirigera client library: the read and the device         *)
(* mutation operations of Hub (src/src/hub.rs) and the two-step            *)
(* authentication handshake of Connect (src/src/connect.rs).               *)
(*                                                                         *)
(* Rust's Option<T> is modelled as a sequence of length 0 or 1:            *)
(* None == <<>> and Some(x) == <<x>>.  A Rust String is a TLA+ string in   *)
(* the hub part and a sequence of one-character strings in the Connect     *)
(* part, where the JSON serialisation of a string has to be computed.      *)
EXTENDS Integers, Sequences, FiniteSets, TLC

VARIABLES device, before, call, sent, replies, result, calls,
          sessions, log, auth

hubVars == <<device, before, call, sent, replies, result, calls>>
connectVars == <<sessions, log, auth>>
vars == <<device, before, call, sent, replies, result, calls, sessions, log, auth>>

None == <<>>
Some(x) == <<x>>

-----------------------------------------------------------------------------
(* Bounds of the model.                                                    *)

\* calls made on one device handle in one behaviour
MaxCalls == 1
\* the requested colour temperatures are 0..MaxTemp (a u16 in the source)
MaxTemp == 4
\* requests of the authentication handshake in one behaviour
MaxRequests == 3

-----------------------------------------------------------------------------
(* Program constants.                                                      *)

\* hub.rs:210 and hub.rs:399: `if level > 100`
LevelMax == 100
\* `level: u8`
U8Max == 255
\* hub.rs:316 `(0f64..=360f64)`, in hundredths
HueMax == 36000
\* hub.rs:320 `(0f64..=1f64)`, in hundredths
SaturationMax == 100

-----------------------------------------------------------------------------
(* f64 values: a finite value is kept in hundredths; NaN compares false    *)
(* with everything, as IEEE 754 and Rust's PartialOrd have it.             *)

Fin(v) == [kind |-> "fin", v |-> v]
NaN == [kind |-> "nan", v |-> 0]

\* a <= b on f64
FLe(a, b) == a.kind = "fin" /\ b.kind = "fin" /\ a.v <= b.v

\* RangeInclusive<f64>::contains: start <= x && x <= end
FContains(start, end, x) == FLe(start, x) /\ FLe(x, end)

\* RangeInclusive<u16>::contains
UContains(start, end, x) == start <= x /\ x <= end

-----------------------------------------------------------------------------
(* Devices.                                                                *)

Capability == {"CustomName", "IsOn", "LightLevel", "ColorTemperature",
               "ColorHue", "ColorSaturation", "BlindsState"}

DeviceId == "d1"

\* The attributes a device handle may hold when the caller obtained it from
\* list()/get(): a fresh device that reports nothing, devices that report is_on
\* and temperature bounds (in either order, or only one of them), and a device
\* that reports every attribute.
Blank ==
    [ custom_name           |-> "lamp",
      is_on                 |-> None,
      light_level           |-> None,
      color_temperature     |-> None,
      color_temperature_min |-> None,
      color_temperature_max |-> None,
      color_hue             |-> None,
      color_saturation      |-> None,
      blinds_target_level   |-> None,
      startup_on_off        |-> None ]

AttributeProfiles ==
    { Blank,
      [Blank EXCEPT !.is_on = Some(FALSE), !.color_temperature_min = Some(3),
                    !.color_temperature_max = Some(1)],
      [Blank EXCEPT !.is_on = Some(TRUE), !.color_temperature_min = Some(1),
                    !.color_temperature_max = Some(3)],
      [Blank EXCEPT !.is_on = Some(TRUE), !.color_temperature_min = Some(3)],
      [Blank EXCEPT !.is_on = Some(FALSE), !.color_temperature_max = Some(1)],
      [ custom_name           |-> "sofa",
        is_on                 |-> Some(TRUE),
        light_level           |-> Some(40),
        color_temperature     |-> Some(2),
        color_temperature_min |-> Some(2),
        color_temperature_max |-> Some(2),
        color_hue             |-> Some(Fin(12000)),
        color_saturation      |-> Some(Fin(50)),
        blinds_target_level   |-> Some(70),
        startup_on_off        |-> Some("startToggle") ] }

MakeDevice(can_receive, p) ==
    [ id                    |-> DeviceId,
      can_receive           |-> can_receive,
      custom_name           |-> p.custom_name,
      is_on                 |-> p.is_on,
      light_level           |-> p.light_level,
      color_temperature     |-> p.color_temperature,
      color_temperature_min |-> p.color_temperature_min,
      color_temperature_max |-> p.color_temperature_max,
      color_hue             |-> p.color_hue,
      color_saturation      |-> p.color_saturation,
      blinds_target_level   |-> p.blinds_target_level,
      startup_on_off        |-> p.startup_on_off ]

Devices == { MakeDevice(c, p) : c \in SUBSET Capability, p \in AttributeProfiles }

-----------------------------------------------------------------------------
(* Inputs.                                                                 *)

Names == {"desk", "hall"}
Levels == {0, LevelMax, LevelMax + 1, U8Max}
Temperatures == 0..MaxTemp
Hues == {Fin(-1), Fin(0), Fin(HueMax), Fin(HueMax + 1), NaN}
Saturations == {Fin(-1), Fin(0), Fin(SaturationMax), Fin(SaturationMax + 1), NaN}
\* the (hue, saturation) pairs tried: each boundary value of one argument with
\* an accepted value of the other, and pairs where both are out of range
HueSaturations ==
    { <<h, s>> \in Hues \X Saturations :
        \/ h \in {Fin(0), Fin(HueMax)} /\ s \in {Fin(0), Fin(SaturationMax)}
        \/ h = Fin(HueMax) \/ s = Fin(0)
        \/ h = Fin(HueMax + 1) /\ s = Fin(SaturationMax + 1) }
\* two values of crate::device::Startup (the enum itself is declared outside
\* hub.rs; the operation only serialises and stores the value it is given)
Startups == {"startOn", "startPrevious"}

\* What `send().await` yields: a transport error, or a response of any status.
\* reqwest returns Ok(response) for every status; only error_for_status(),
\* which the source never calls, turns a non-2xx response into an Err.
Statuses == {200, 500}
HubReplies == {[kind |-> "error", status |-> 0]}
              \cup {[kind |-> "response", status |-> s] : s \in Statuses}
\* the hub is not asked anything
NoReply == [kind |-> "none", status |-> 0]

-----------------------------------------------------------------------------
(* Helpers of hub.rs.                                                      *)

\* a check that is content with any one of the required capabilities
has_capability_any(got, required) == \E item \in required : item \in got

has_capability(got, required) == \A item \in required : item \in got

\* PATCH /v1/devices/{id} with the body [{"attributes": {...}}]
Patch(id, attributes) ==
    [ method |-> "PATCH",
      path   |-> <<"v1", "devices", id>>,
      body   |-> << [attributes |-> attributes] >> ]

Ok == [ok |-> TRUE, err |-> ""]
Err(msg) == [ok |-> FALSE, err |-> msg]

\* anyhow::bail! before any request is built
Bail(dev, msg) == [device |-> dev, sent |-> <<>>, result |-> Err(msg)]

\* `.send().await.map_err(..)?` : Err only when the transport fails
SendFailed(reply) == reply.kind = "error"

\* a tail that sends the PATCH a second time when the transport failed
SendThen_retrying(dev, req, reply, updated) ==
    IF SendFailed(reply)
    THEN [device |-> dev, sent |-> <<req, req>>, result |-> Err("transport")]
    ELSE [device |-> updated, sent |-> <<req>>, result |-> Ok]

\* the tail every mutation shares: send the PATCH, return the transport error
\* with the device untouched, otherwise store the update and return Ok(())
SendThen(dev, req, reply, updated) ==
    IF SendFailed(reply)
    THEN [device |-> dev, sent |-> <<req>>, result |-> Err("transport")]
    ELSE [device |-> updated, sent |-> <<req>>, result |-> Ok]

-----------------------------------------------------------------------------
(* The seven mutation operations of Hub.  Each operator is the whole       *)
(* method: given the device handle, the arguments and what the hub does    *)
(* with a request, it yields the device afterwards, the requests sent and  *)
(* the value returned.                                                     *)

rename(dev, new_name, reply) ==
    IF ~has_capability(dev.can_receive, {"CustomName"})
    THEN Bail(dev, "device cannot change name")
    ELSE SendThen(dev, Patch(dev.id, [customName |-> new_name]), reply,
                  [dev EXCEPT !.custom_name = new_name])

\* `inner.attributes.is_on.map(|x| attributes.insert("isOn", !x))`: the map
\* stays empty when is_on is None, and the request is sent all the same
ToggleAttributes(is_on) ==
    IF is_on = None THEN <<>> ELSE [isOn |-> ~is_on[1]]

\* `inner.attributes.is_on.map(|x| !x)`
ToggleCached(is_on) ==
    IF is_on = None THEN None ELSE Some(~is_on[1])

toggle_on_off(dev, reply) ==
    IF ~has_capability(dev.can_receive, {"IsOn"})
    THEN Bail(dev, "device cannot be toggled")
    ELSE SendThen(dev, Patch(dev.id, ToggleAttributes(dev.is_on)), reply,
                  [dev EXCEPT !.is_on = ToggleCached(dev.is_on)])

\* an off-by-one check that turns the level 100 down as well
LevelOutOfRange_inclusive(level) == level >= LevelMax

\* `if level > 100`
LevelOutOfRange(level) == level > LevelMax

set_light_level(dev, level, reply) ==
    IF ~has_capability(dev.can_receive, {"LightLevel"})
    THEN Bail(dev, "device cannot set light level")
    ELSE IF LevelOutOfRange(level)
    THEN Bail(dev, "level must be between 0.0 -> 100.0")
    ELSE SendThen(dev, Patch(dev.id, [lightLevel |-> level]), reply,
                  [dev EXCEPT !.light_level = Some(level)])

\* the range taken in ascending order, (min..=max)
TemperatureInRange_ascending(min, max, temperature) == UContains(min, max, temperature)

\* `(max..=min).contains(&temperature)`
TemperatureInRange(min, max, temperature) == UContains(max, min, temperature)

set_temperature(dev, temperature, reply) ==
    IF ~has_capability(dev.can_receive, {"ColorTemperature"})
    THEN Bail(dev, "device cannot set color temperature")
    ELSE IF dev.color_temperature_min = None
    THEN Bail(dev, "device has no min temperature value")
    ELSE IF dev.color_temperature_max = None
    THEN Bail(dev, "device has no max temperature value")
    ELSE IF ~TemperatureInRange(dev.color_temperature_min[1],
                                dev.color_temperature_max[1], temperature)
    THEN Bail(dev, "color temperature not within min -> max")
    ELSE SendThen(dev, Patch(dev.id, [colorTemperature |-> temperature]), reply,
                  [dev EXCEPT !.color_temperature = Some(temperature)])

\* `(0f64..=360f64).contains(&hue)`
HueInRange(hue) == FContains(Fin(0), Fin(HueMax), hue)

\* the saturation checked against the hue's range
SaturationInRange_as_hue(saturation) == FContains(Fin(0), Fin(HueMax), saturation)

\* `(0f64..=1f64).contains(&saturation)`
SaturationInRange(saturation) == FContains(Fin(0), Fin(SaturationMax), saturation)

\* hub.rs:342-343: both cached fields are assigned Some(hue)
HueSaturationCached(dev, hue, saturation) ==
    [dev EXCEPT !.color_hue = Some(hue), !.color_saturation = Some(hue)]

set_hue_saturation(dev, hue, saturation, reply) ==
    IF ~has_capability(dev.can_receive, {"ColorHue", "ColorSaturation"})
    THEN Bail(dev, "device cannot be change for hue and saturation")
    ELSE IF ~HueInRange(hue)
    THEN Bail(dev, "hue must be between 0.0 -> 360.0")
    ELSE IF ~SaturationInRange(saturation)
    THEN Bail(dev, "hue must be between 0.0 -> 1.0")
    ELSE SendThen(dev,
                  Patch(dev.id, [colorHue |-> hue, colorSaturation |-> saturation]),
                  reply, HueSaturationCached(dev, hue, saturation))

\* the operation gated like its neighbours, on a capability of its own
set_startup_behaviour_gated(dev, behaviour, reply) ==
    IF ~has_capability(dev.can_receive, {"IsOn"})
    THEN Bail(dev, "device cannot set startup behaviour")
    ELSE SendThen(dev, Patch(dev.id, [startupOnOff |-> behaviour]), reply,
                  [dev EXCEPT !.startup_on_off = Some(behaviour)])

set_startup_behaviour(dev, behaviour, reply) ==
    SendThen(dev, Patch(dev.id, [startupOnOff |-> behaviour]), reply,
             [dev EXCEPT !.startup_on_off = Some(behaviour)])

set_target_level(dev, level, reply) ==
    IF ~has_capability(dev.can_receive, {"BlindsState"})
    THEN Bail(dev, "device cannot be change for blind state")
    ELSE IF LevelOutOfRange(level)
    THEN Bail(dev, "level must be between 0.0 -> 100.0")
    ELSE SendThen(dev, Patch(dev.id, [blindsTargetLevel |-> level]), reply,
                  [dev EXCEPT !.blinds_target_level = Some(level)])

-----------------------------------------------------------------------------
(* The four read operations of Hub: one GET, decoded as JSON.  They return *)
(* fresh values and leave the caller's device handle alone.                *)

SceneId == "s1"

\* What the hub may do with a GET: a transport error, a body that decodes into
\* the expected type, or one that does not (an unknown id, for instance).
GetReplies ==
    { [kind |-> "error",    status |-> 0,   decodes |-> FALSE],
      [kind |-> "response", status |-> 200, decodes |-> TRUE],
      [kind |-> "response", status |-> 404, decodes |-> FALSE] }

GetRequest(path) == [method |-> "GET", path |-> path, body |-> <<>>]

\* `.send().await?.json::<T>().await.map_err(..)`: one request; Err when the
\* transport fails or the body does not decode, Ok(value) otherwise
SendGet(dev, req, reply) ==
    IF reply.kind = "error"
    THEN [device |-> dev, sent |-> <<req>>, result |-> Err("transport")]
    ELSE IF ~reply.decodes
    THEN [device |-> dev, sent |-> <<req>>, result |-> Err("decode")]
    ELSE [device |-> dev, sent |-> <<req>>, result |-> Ok]

list(dev, reply) == SendGet(dev, GetRequest(<<"v1", "devices">>), reply)

get(dev, id, reply) == SendGet(dev, GetRequest(<<"v1", "devices", id>>), reply)

scenes(dev, reply) == SendGet(dev, GetRequest(<<"v1", "scenes">>), reply)

scene(dev, id, reply) == SendGet(dev, GetRequest(<<"v1", "scenes", id>>), reply)

-----------------------------------------------------------------------------
(* The caller: one device handle, on which it calls the operations one     *)
(* after the other.  `before` is the handle as it was when the last call   *)
(* started, `sent` the requests that call sent and `replies` what the hub  *)
(* answered to them.                                                       *)

NoCall == [op |-> "none", args |-> <<>>]

\* the state after a call `op(args)` that came out as `out`; the hub replies
\* to the requests it gets and to nothing else
Returned(op, args, reply, out) ==
    /\ calls < MaxCalls
    /\ (out.sent = <<>>) = (reply = NoReply)
    /\ calls' = calls + 1
    /\ before' = device
    /\ call' = [op |-> op, args |-> args]
    /\ device' = out.device
    /\ sent' = out.sent
    /\ replies' = IF out.sent = <<>> THEN <<>> ELSE <<reply>>
    /\ result' = out.result
    /\ UNCHANGED connectVars

Rename ==
    \E new_name \in Names, reply \in HubReplies \cup {NoReply} :
        Returned("rename", <<new_name>>, reply, rename(device, new_name, reply))

ToggleOnOff ==
    \E reply \in HubReplies \cup {NoReply} :
        Returned("toggle_on_off", <<>>, reply, toggle_on_off(device, reply))

SetLightLevel ==
    \E level \in Levels, reply \in HubReplies \cup {NoReply} :
        Returned("set_light_level", <<level>>, reply,
                 set_light_level(device, level, reply))

SetTemperature ==
    \E temperature \in Temperatures, reply \in HubReplies \cup {NoReply} :
        Returned("set_temperature", <<temperature>>, reply,
                 set_temperature(device, temperature, reply))

SetHueSaturation ==
    \E hs \in HueSaturations, reply \in HubReplies \cup {NoReply} :
        Returned("set_hue_saturation", hs, reply,
                 set_hue_saturation(device, hs[1], hs[2], reply))

SetStartupBehaviour ==
    \E behaviour \in Startups, reply \in HubReplies \cup {NoReply} :
        Returned("set_startup_behaviour", <<behaviour>>, reply,
                 set_startup_behaviour(device, behaviour, reply))

SetTargetLevel ==
    \E level \in Levels, reply \in HubReplies \cup {NoReply} :
        Returned("set_target_level", <<level>>, reply,
                 set_target_level(device, level, reply))

List ==
    \E reply \in GetReplies :
        Returned("list", <<>>, reply, list(device, reply))

GetDevice ==
    \E reply \in GetReplies :
        Returned("get", <<DeviceId>>, reply, get(device, DeviceId, reply))

Scenes ==
    \E reply \in GetReplies :
        Returned("scenes", <<>>, reply, scenes(device, reply))

Scene ==
    \E reply \in GetReplies :
        Returned("scene", <<SceneId>>, reply, scene(device, SceneId, reply))

-----------------------------------------------------------------------------
(* JSON as serde_json::Value holds it, and its Display implementation.     *)
(* A Rust String is a sequence of one-character strings here.              *)

JString(chars) == [t |-> "string", s |-> chars, n |-> 0]
JNumber(n) == [t |-> "number", s |-> <<>>, n |-> n]
JNull == [t |-> "null", s |-> <<>>, n |-> 0]

\* a response body: not JSON at all, a JSON value that is no object, or an
\* object with its members
NotJson == [json |-> FALSE, object |-> FALSE, members |-> <<>>]
JArray == [json |-> TRUE, object |-> FALSE, members |-> <<>>]
JObject(members) == [json |-> TRUE, object |-> TRUE, members |-> members]

\* Value::get(key): Some(member) of an object that has the key, None otherwise
Get(value, key) ==
    IF value.object /\ key \in DOMAIN value.members
    THEN Some(value.members[key])
    ELSE None

\* the escape of one character inside a JSON string
EscapeChar(c) ==
    IF c = "\"" THEN <<"\\", "\"">>
    ELSE IF c = "\\" THEN <<"\\", "\\">>
    ELSE <<c>>

RECURSIVE Escape(_)
Escape(chars) ==
    IF chars = <<>> THEN <<>>
    ELSE EscapeChar(Head(chars)) \o Escape(Tail(chars))

Digit(d) == CASE d = 0 -> "0" [] d = 1 -> "1" [] d = 2 -> "2" [] d = 3 -> "3"
              [] d = 4 -> "4" [] d = 5 -> "5" [] d = 6 -> "6" [] d = 7 -> "7"
              [] d = 8 -> "8" [] d = 9 -> "9"

RECURSIVE Decimal(_)
Decimal(n) ==
    IF n < 10 THEN <<Digit(n)>> ELSE Decimal(n \div 10) \o <<Digit(n % 10)>>

\* `value.to_string()`: Display for serde_json::Value writes the value as JSON
\* text, so a string comes out inside double quotes, escaped
ValueToString(value) ==
    CASE value.t = "string" -> <<"\"">> \o Escape(value.s) \o <<"\"">>
      [] value.t = "number" -> Decimal(value.n)
      [] value.t = "null"   -> <<"n", "u", "l", "l">>

-----------------------------------------------------------------------------
(* Connect: the authentication handshake.                                  *)

\* pkce::code_verifier(128): random ASCII characters (shortened)
Verifiers == { <<"p", "q">>, <<"r", "s">> }

\* pkce::code_challenge: the S256 digest of the verifier, kept symbolic
CodeChallenge(verifier) == <<"S256">> \o verifier

\* String::from_utf8_lossy on the verifier's bytes, which are ASCII
FromUtf8Lossy(bytes) == bytes

Codes == { JString(<<"a", "b", "c">>), JString(<<"a", "\"", "b", "c">>),
           JNumber(70), JNull }
Tokens == { JString(<<"x", "y", "z">>), JString(<<"x", "\\", "y", "z">>), JNull }

TransportError == [kind |-> "error", status |-> 0, body |-> NotJson]
Response(status, body) == [kind |-> "response", status |-> status, body |-> body]

\* what the hub may do with GET /v1/oauth/authorize
AuthorizeReplies ==
    { TransportError,
      Response(200, NotJson),
      Response(200, JArray),
      Response(403, JObject([error |-> JString(<<"n", "o">>)])) }
    \cup { Response(200, JObject([code |-> c])) : c \in Codes }

\* what the hub may do with POST /v1/oauth/token
TokenReplies ==
    { TransportError,
      Response(500, NotJson),
      Response(403, JObject([error |-> JString(<<"n", "o">>)])),
      Response(200, JObject([code |-> JString(<<"a", "b", "c">>)])) }
    \cup { Response(200, JObject([access_token |-> t])) : t \in Tokens }

AuthorizeRequest(code_verify) ==
    [ method |-> "GET",
      path   |-> <<"v1", "oauth", "authorize">>,
      query  |-> [ audience              |-> "homesmart.local",
                   response_type         |-> "code",
                   code_challenge        |-> CodeChallenge(code_verify),
                   code_challenge_method |-> "S256" ],
      body   |-> <<>> ]

TokenRequest(self) ==
    [ method |-> "POST",
      path   |-> <<"v1", "oauth", "token">>,
      query  |-> <<>>,
      body   |-> [ code          |-> self.code,
                   name          |-> "localhost",
                   grant_type    |-> "authorization_code",
                   code_verifier |-> self.code_verifier ] ]

\* `.send().await?.json::<serde_json::Value>().await?`: a transport error and a
\* body that is no JSON both return Err(BuildError); the status is not looked at
ReadJson(reply) ==
    IF reply.kind = "error" \/ ~reply.body.json THEN None ELSE Some(reply.body)

\* a missing code replaced by the empty string instead of an error
CodeOf_or_default(response) ==
    IF Get(response, "code") = None THEN Some(<<>>)
    ELSE Some(ValueToString(Get(response, "code")[1]))

\* `response.get("code").ok_or(Error::CodeNotFound)?.to_string()`
CodeOf(response) ==
    IF Get(response, "code") = None THEN None
    ELSE Some(ValueToString(Get(response, "code")[1]))

\* Connect::new: yields the session (Some on Ok), the request sent and the result
connect_new(code_verify, reply) ==
    LET req == AuthorizeRequest(code_verify)
        response == ReadJson(reply)
    IN  IF response = None
        THEN [session |-> None, sent |-> <<req>>, result |-> Err("BuildError")]
        ELSE IF CodeOf(response[1]) = None
        THEN [session |-> None, sent |-> <<req>>, result |-> Err("CodeNotFound")]
        ELSE [session |-> Some([ code          |-> CodeOf(response[1])[1],
                                 code_verifier |-> FromUtf8Lossy(code_verify) ]),
              sent    |-> <<req>>,
              result  |-> Ok]

\* `resp.get("access_token").map(|x| x.to_string()).ok_or(Error::TokenNotFound)`
TokenOf(resp) ==
    IF Get(resp, "access_token") = None THEN None
    ELSE Some(ValueToString(Get(resp, "access_token")[1]))

\* Connect::verify(&self): yields the token (Some on Ok), the request sent and
\* the result
connect_verify(self, reply) ==
    LET req == TokenRequest(self)
        resp == ReadJson(reply)
    IN  IF resp = None
        THEN [token |-> None, sent |-> <<req>>, result |-> Err("BuildError")]
        ELSE IF TokenOf(resp[1]) = None
        THEN [token |-> None, sent |-> <<req>>, result |-> Err("TokenNotFound")]
        ELSE [token |-> TokenOf(resp[1]), sent |-> <<req>>, result |-> Ok]

\* The caller of Connect: `sessions` are the Connect values it holds, `log` the
\* requests sent so far, each with the hub's reply, and `auth` the last call
\* with what it returned.
NoAuth == [op |-> "none", result |-> Ok, value |-> <<>>]

Exchange(req, reply) == [request |-> req, reply |-> reply]

ConnectNew ==
    \E code_verify \in Verifiers, reply \in AuthorizeReplies :
        LET out == connect_new(code_verify, reply) IN
        /\ Len(log) < MaxRequests
        /\ sessions' = sessions \cup { out.session[i] : i \in DOMAIN out.session }
        /\ log' = log \o [i \in DOMAIN out.sent |-> Exchange(out.sent[i], reply)]
        /\ auth' = [op |-> "new", result |-> out.result, value |-> out.session]
        /\ UNCHANGED hubVars

\* verify taking the session by value: it is gone once verify was called
ConnectVerify_consuming ==
    \E self \in sessions, reply \in TokenReplies :
        LET out == connect_verify(self, reply) IN
        /\ Len(log) < MaxRequests
        /\ sessions' = sessions \ {self}
        /\ log' = log \o [i \in DOMAIN out.sent |-> Exchange(out.sent[i], reply)]
        /\ auth' = [op |-> "verify", result |-> out.result, value |-> out.token]
        /\ UNCHANGED hubVars

ConnectVerify ==
    \E self \in sessions, reply \in TokenReplies :
        LET out == connect_verify(self, reply) IN
        /\ Len(log) < MaxRequests
        /\ log' = log \o [i \in DOMAIN out.sent |-> Exchange(out.sent[i], reply)]
        /\ auth' = [op |-> "verify", result |-> out.result, value |-> out.token]
        /\ UNCHANGED <<sessions, hubVars>>

-----------------------------------------------------------------------------
(* Specifications.                                                         *)

ConnectIdle ==
    /\ sessions = {}
    /\ log = <<>>
    /\ auth = NoAuth

HubIdle(dev) ==
    /\ device = dev
    /\ before = dev
    /\ call = NoCall
    /\ sent = <<>>
    /\ replies = <<>>
    /\ result = Ok
    /\ calls = 0

Init ==
    /\ \E dev \in Devices : HubIdle(dev)
    /\ ConnectIdle

Next ==
    \/ Rename
    \/ ToggleOnOff
    \/ SetLightLevel
    \/ SetTemperature
    \/ SetHueSaturation
    \/ SetStartupBehaviour
    \/ SetTargetLevel
    \/ List
    \/ GetDevice
    \/ Scenes
    \/ Scene

Spec == Init /\ [][Next]_vars

\* the handshake alone; no device is involved
InitConnect ==
    /\ HubIdle(MakeDevice({}, Blank))
    /\ ConnectIdle

NextConnect ==
    \/ ConnectNew
    \/ ConnectVerify

SpecConnect == InitConnect /\ [][NextConnect]_vars

\* The client as a whole.  One run of a program either performs the handshake
\* to obtain a token (no device handle is involved) or drives a device through
\* a Hub built from a configured token.
HubRun == log = <<>> /\ auth = NoAuth
HandshakeRun == calls = 0 /\ device = MakeDevice({}, Blank)

NextClient ==
    \/ HubRun /\ Next
    \/ HandshakeRun /\ NextConnect

SpecClient == Init /\ [][NextClient]_vars

-----------------------------------------------------------------------------
(* Properties of the mutation operations, checked under Spec.              *)

MutationOps == {"rename", "toggle_on_off", "set_light_level", "set_temperature",
                "set_hue_saturation", "set_startup_behaviour", "set_target_level"}

\* the capabilities each gated operation is said to require
Requires(op) ==
    CASE op = "rename"             -> {"CustomName"}
      [] op = "toggle_on_off"      -> {"IsOn"}
      [] op = "set_light_level"    -> {"LightLevel"}
      [] op = "set_temperature"    -> {"ColorTemperature"}
      [] op = "set_hue_saturation" -> {"ColorHue", "ColorSaturation"}
      [] op = "set_target_level"   -> {"BlindsState"}
      [] OTHER                     -> {}

\* the hub answered with a 2xx status
IsSuccess(reply) == reply.kind = "response" /\ reply.status \in 200..299

\* the call returned an error, sent nothing and left the handle as it was
Rejected == ~result.ok /\ sent = <<>> /\ device = before

\* the attributes of the one request the call sent
SentAttributes == sent[1].body[1].attributes

\* the call sent exactly one request: the PATCH of the device with `attributes`
SentPatch(attributes) ==
    /\ Len(sent) = 1
    /\ sent[1].method = "PATCH"
    /\ sent[1].path = <<"v1", "devices", before.id>>
    /\ Len(sent[1].body) = 1
    /\ DOMAIN sent[1].body[1] = {"attributes"}
    /\ DOMAIN SentAttributes = DOMAIN attributes
    /\ \A k \in DOMAIN attributes : SentAttributes[k] = attributes[k]

\* C1: a gated operation called on a device whose can_receive lacks one of the
\* capabilities it requires returns an error, sends no request and leaves the
\* cached device unchanged, whatever the arguments.
C1_MissingCapabilityRejected ==
    (call.op \in MutationOps /\ ~(Requires(call.op) \subseteq before.can_receive))
        => Rejected

\* a device with ColorHue but not ColorSaturation, asked for an in-range hue
\* and saturation, was turned down
C1_Witness ==
    /\ call.op = "set_hue_saturation"
    /\ call.args = <<Fin(HueMax), Fin(SaturationMax)>>
    /\ "ColorHue" \in before.can_receive
    /\ "ColorSaturation" \notin before.can_receive
    /\ Rejected

\* C2: whenever the hub answers the PATCH of a mutation operation with a
\* non-2xx response, or the transport fails, the operation returns an error and
\* the cached device is unchanged.
C2_FailedPatchLeavesCache ==
    (call.op \in MutationOps /\ replies # <<>> /\ ~IsSuccess(replies[1]))
        => (~result.ok /\ device = before)

\* the device a successful call is said to leave: `before` with the targeted
\* attribute(s) holding the new value
Targeted ==
    CASE call.op = "rename" ->
           [before EXCEPT !.custom_name = call.args[1]]
      [] call.op = "toggle_on_off" ->
           [before EXCEPT !.is_on = IF before.is_on = None THEN None
                                    ELSE Some(~before.is_on[1])]
      [] call.op = "set_light_level" ->
           [before EXCEPT !.light_level = Some(call.args[1])]
      [] call.op = "set_temperature" ->
           [before EXCEPT !.color_temperature = Some(call.args[1])]
      [] call.op = "set_hue_saturation" ->
           [before EXCEPT !.color_hue = Some(call.args[1]),
                          !.color_saturation = Some(call.args[2])]
      [] call.op = "set_startup_behaviour" ->
           [before EXCEPT !.startup_on_off = Some(call.args[1])]
      [] call.op = "set_target_level" ->
           [before EXCEPT !.blinds_target_level = Some(call.args[1])]

\* C3: after a mutation operation that returns success the cached device
\* differs from its state before the call only in the attributes the operation
\* targets, which hold the new value.
C3_SuccessUpdatesOnlyTargets ==
    (call.op \in MutationOps /\ result.ok) => device = Targeted

\* C4: after a successful set_hue_saturation(device, hue, saturation) the cache
\* holds color_hue = hue and color_saturation = saturation, the values sent as
\* colorHue and colorSaturation.
C4_HueSaturationCached ==
    (call.op = "set_hue_saturation" /\ result.ok)
        => /\ device.color_hue = Some(call.args[1])
           /\ device.color_saturation = Some(call.args[2])
           /\ SentPatch([colorHue |-> device.color_hue[1],
                         colorSaturation |-> device.color_saturation[1]])

\* the temperature request is acceptable: both bounds present, max <= t <= min
TemperatureAcceptable ==
    /\ before.color_temperature_min # None
    /\ before.color_temperature_max # None
    /\ before.color_temperature_max[1] <= call.args[1]
    /\ call.args[1] <= before.color_temperature_min[1]

\* C5: set_temperature on a device with ColorTemperature sends the PATCH exactly
\* when both bounds are present and max <= requested <= min; otherwise it
\* returns an error, sends nothing and leaves the cache unchanged.  A device
\* reporting min < max accepts no temperature.
C5_TemperatureBounds ==
    (call.op = "set_temperature" /\ "ColorTemperature" \in before.can_receive)
        => /\ TemperatureAcceptable => SentPatch([colorTemperature |-> call.args[1]])
           /\ ~TemperatureAcceptable => Rejected
           /\ ( /\ before.color_temperature_min # None
                /\ before.color_temperature_max # None
                /\ before.color_temperature_min[1] < before.color_temperature_max[1] )
              => Rejected

\* a temperature strictly between max = 1 and min = 3 was sent
C5_Witness ==
    /\ call.op = "set_temperature"
    /\ "ColorTemperature" \in before.can_receive
    /\ before.color_temperature_max = Some(1)
    /\ before.color_temperature_min = Some(3)
    /\ call.args = <<2>>
    /\ sent # <<>>
    /\ result.ok
    /\ device.color_temperature = Some(2)

\* the attribute a level operation sends and the field it caches
LevelKey == IF call.op = "set_light_level" THEN "lightLevel" ELSE "blindsTargetLevel"
LevelCached(dev) ==
    IF call.op = "set_light_level" THEN dev.light_level ELSE dev.blinds_target_level

\* C6: set_light_level and set_target_level on a device that has the required
\* capability accept every level in 0..=100 (the PATCH is sent and, on success,
\* the value is cached) and reject every level of 101 or above with an error,
\* no request and the cached level unchanged.
C6_LevelRange ==
    ( /\ call.op \in {"set_light_level", "set_target_level"}
      /\ Requires(call.op) \subseteq before.can_receive )
        => /\ call.args[1] \in 0..100
                => /\ Len(sent) = 1
                   /\ sent[1].method = "PATCH"
                   /\ DOMAIN SentAttributes = {LevelKey}
                   /\ SentAttributes[LevelKey] = call.args[1]
                   /\ result.ok => LevelCached(device) = Some(call.args[1])
           /\ call.args[1] >= 101
                => /\ Rejected
                   /\ LevelCached(device) = LevelCached(before)

\* level 100 went out to a blind and was cached
C6_Witness ==
    /\ call.op = "set_target_level"
    /\ "BlindsState" \in before.can_receive
    /\ call.args = <<100>>
    /\ sent # <<>>
    /\ result.ok
    /\ device.blinds_target_level = Some(100)
    /\ before.blinds_target_level # Some(100)

\* x lies outside [lo, hi] (in hundredths); NaN lies outside every interval
Outside(x, lo, hi) == ~(x.kind = "fin" /\ lo <= x.v /\ x.v <= hi)

\* C7: set_hue_saturation on a device with ColorHue and ColorSaturation rejects
\* a hue outside [0,360] and a saturation outside [0,1], each with an error, no
\* request and no cache change; with both inside their ranges the PATCH is sent.
C7_HueSaturationRange ==
    ( /\ call.op = "set_hue_saturation"
      /\ {"ColorHue", "ColorSaturation"} \subseteq before.can_receive )
        => /\ Outside(call.args[1], 0, 36000) => Rejected
           /\ Outside(call.args[2], 0, 100) => Rejected
           /\ (~Outside(call.args[1], 0, 36000) /\ ~Outside(call.args[2], 0, 100))
                => SentPatch([colorHue |-> call.args[1],
                              colorSaturation |-> call.args[2]])

\* a capable device turned down a saturation just above 1 with a hue in range
C7_Witness ==
    /\ call.op = "set_hue_saturation"
    /\ {"ColorHue", "ColorSaturation"} \subseteq before.can_receive
    /\ call.args = <<Fin(HueMax), Fin(SaturationMax + 1)>>
    /\ Rejected

\* C8: toggle_on_off on a device that has IsOn but whose is_on is absent sends
\* no request and leaves the cached device unchanged; when is_on is known and
\* the call succeeds, the PATCH carries isOn = not(old is_on) and the cached
\* is_on becomes that value.
C8_ToggleNeedsKnownState ==
    (call.op = "toggle_on_off" /\ "IsOn" \in before.can_receive)
        => /\ before.is_on = None => (sent = <<>> /\ device = before)
           /\ (before.is_on # None /\ result.ok)
                => /\ SentPatch([isOn |-> ~before.is_on[1]])
                   /\ device.is_on = Some(~before.is_on[1])

-----------------------------------------------------------------------------
(* Properties of the authentication handshake, checked under SpecConnect.  *)

IsAuthorize(x) == x.request.method = "GET" /\ x.request.path = <<"v1", "oauth", "authorize">>
IsToken(x) == x.request.method = "POST" /\ x.request.path = <<"v1", "oauth", "token">>

\* the hub's answer is a JSON value
AnsweredJson(x) == x.reply.kind = "response" /\ x.reply.body.json

\* the hub's answer is a JSON object that has the field
HasField(x, key) ==
    AnsweredJson(x) /\ x.reply.body.object /\ key \in DOMAIN x.reply.body.members

\* the hub's answer is a JSON object whose field is a string
HasStringField(x, key) ==
    HasField(x, key) /\ x.reply.body.members[key].t = "string"

LastExchange == log[Len(log)]

\* C9: when the hub answers the authorize GET with an object whose code is the
\* string c and the token POST with an object whose access_token is the string
\* t, Connect::new followed by verify sends exactly c as the code of the token
\* request and returns exactly t.
C9_HandshakeYieldsToken ==
    ( /\ Len(log) = 2
      /\ IsAuthorize(log[1]) /\ HasStringField(log[1], "code")
      /\ IsToken(log[2]) /\ HasStringField(log[2], "access_token") )
        => /\ log[2].request.body.code = log[1].reply.body.members["code"].s
           /\ auth.op = "verify"
           /\ auth.result.ok
           /\ auth.value = Some(log[2].reply.body.members["access_token"].s)

\* the token request of exchange i follows an authorize exchange that was
\* answered with a code for the same verifier
FollowsCode(i) ==
    \E j \in 1..(i - 1) :
        /\ IsAuthorize(log[j])
        /\ HasField(log[j], "code")
        /\ log[j].request.query.code_challenge
             = CodeChallenge(log[i].request.body.code_verifier)

\* C10: if the (JSON) authorize response has no code field, Connect::new fails
\* with CodeNotFound and creates no session; if the (JSON) token response has no
\* access_token field, verify fails with TokenNotFound; no token POST is sent
\* before an authorize response containing a code has been received.
C10_HandshakeFailures ==
    /\ (auth.op = "new" /\ AnsweredJson(LastExchange) /\ ~HasField(LastExchange, "code"))
         => (auth.result = Err("CodeNotFound") /\ auth.value = None)
    /\ (auth.op = "verify" /\ AnsweredJson(LastExchange)
          /\ ~HasField(LastExchange, "access_token"))
         => (auth.result = Err("TokenNotFound") /\ auth.value = None)
    /\ \A i \in 1..Len(log) : IsToken(log[i]) => FollowsCode(i)
    /\ \A self \in sessions :
         \E j \in 1..Len(log) :
             /\ IsAuthorize(log[j])
             /\ HasField(log[j], "code")
             /\ log[j].request.query.code_challenge = CodeChallenge(self.code_verifier)

\* a first new() was answered without a code, a second one with a code, and
\* the verify of that session was answered without an access_token
C10_Witness ==
    /\ Len(log) = 3
    /\ IsAuthorize(log[1]) /\ AnsweredJson(log[1]) /\ ~HasField(log[1], "code")
    /\ IsAuthorize(log[2]) /\ HasField(log[2], "code")
    /\ IsToken(log[3]) /\ AnsweredJson(log[3]) /\ ~HasField(log[3], "access_token")
    /\ auth.op = "verify"
    /\ auth.result = Err("TokenNotFound")
    /\ Cardinality(sessions) = 1

\* the session a token request was built from
SessionOf(x) ==
    [code |-> x.request.body.code, code_verifier |-> x.request.body.code_verifier]

\* C11 as stated: a session (same code and verifier) is used for at most one
\* token request, so in particular for none after its token was retrieved.
C11_SessionUsedOnce ==
    \A i, j \in 1..Len(log) :
        (IsToken(log[i]) /\ IsToken(log[j]) /\ SessionOf(log[i]) = SessionOf(log[j]))
            => i = j

\* C11 as amended: the code and verifier are produced in new() and only read by
\* verify(): every token request carries the code and verifier of a session
\* that an earlier new() created from the hub's answer, and that session is
\* still held afterwards, ready for further token requests.
C11_SessionOnlyRead ==
    \A i \in 1..Len(log) :
        IsToken(log[i])
            => /\ SessionOf(log[i]) \in sessions
               /\ \E j \in 1..(i - 1) :
                    /\ IsAuthorize(log[j])
                    /\ HasField(log[j], "code")
                    /\ log[j].request.query.code_challenge
                         = CodeChallenge(SessionOf(log[i]).code_verifier)
                    /\ SessionOf(log[i]).code
                         = ValueToString(log[j].reply.body.members["code"])

\* one session, verified twice: the first verify retrieved a token and the
\* second one, with the same code and verifier, retrieved one again
C11_Witness ==
    /\ Len(log) = 3
    /\ IsAuthorize(log[1])
    /\ IsToken(log[2]) /\ HasField(log[2], "access_token")
    /\ IsToken(log[3]) /\ HasField(log[3], "access_token")
    /\ SessionOf(log[2]) = SessionOf(log[3])
    /\ auth.op = "verify"
    /\ auth.result.ok
    /\ SessionOf(log[3]) \in sessions

-----------------------------------------------------------------------------
(* Properties of the client as a whole, checked under SpecClient.          *)

ReadOps == {"list", "get", "scenes", "scene"}

\* a check the operation makes on its arguments turns the call down: a
\* required capability is missing, a level is 101 or more, the temperature is
\* not acceptable, or the hue or the saturation lies outside its range
PreconditionFails ==
    \/ call.op \in MutationOps /\ ~(Requires(call.op) \subseteq before.can_receive)
    \/ call.op \in {"set_light_level", "set_target_level"} /\ call.args[1] >= 101
    \/ call.op = "set_temperature" /\ ~TemperatureAcceptable
    \/ call.op = "set_hue_saturation"
         /\ (Outside(call.args[1], 0, 36000) \/ Outside(call.args[2], 0, 100))

\* the last call of a Hub operation sent at most one request, and none when a
\* precondition check failed; the hub was asked once even when the call failed
HubOneRequest ==
    (call.op \in ReadOps \cup MutationOps)
        => /\ Len(sent) <= 1
           /\ Len(replies) = Len(sent)
           /\ PreconditionFails => sent = <<>>
           /\ call.op \in ReadOps => Len(sent) = 1

\* a step of the handshake: the call made, new() or verify(), added exactly one
\* request, the authorize GET for new() and the token POST for verify()
HandshakeOneRequest ==
    (log' # log \/ auth' # auth)
        => /\ Len(log') = Len(log) + 1
           /\ SubSeq(log', 1, Len(log)) = log
           /\ auth'.op = "new" => IsAuthorize(log'[Len(log')])
           /\ auth'.op = "verify" => IsToken(log'[Len(log')])
           /\ auth'.op \in {"new", "verify"}

\* C12: every call of list, get, scenes, scene and of the seven mutation
\* operations issues at most one HTTP request, and none when a precondition
\* check fails; no failure is retried.  The handshake issues two requests, one
\* in new() and one in verify().
C12_OneRequestPerCall == [](HubOneRequest) /\ [][HandshakeOneRequest]_vars

\* a mutation whose request met a transport error: one request, not repeated
C12_Witness ==
    /\ call.op = "set_light_level"
    /\ replies = <<[kind |-> "error", status |-> 0]>>
    /\ Len(sent) = 1
    /\ ~result.ok
    /\ device = before

-----------------------------------------------------------------------------
(* The ungated operation, checked under Spec.                              *)

\* C13: set_startup_behaviour checks no capability: for every device, also one
\* whose can_receive is empty, it sends the PATCH with startupOnOff and on
\* success caches startup_on_off = the given behaviour; every other mutation
\* operation sends nothing for a device whose can_receive is empty.
C13_StartupUngated ==
    /\ call.op = "set_startup_behaviour"
         => /\ SentPatch([startupOnOff |-> call.args[1]])
            /\ result.ok => device.startup_on_off = Some(call.args[1])
    /\ (call.op \in MutationOps \ {"set_startup_behaviour"} /\ before.can_receive = {})
         => sent = <<>>

\* a device that can receive nothing had its startup behaviour set and cached
C13_Witness ==
    /\ call.op = "set_startup_behaviour"
    /\ before.can_receive = {}
    /\ before.startup_on_off = None
    /\ Len(sent) = 1
    /\ result.ok
    /\ device.startup_on_off = Some(call.args[1])

=============================================================================
